---- MODULE Spec2Model ----
(***************************************************************************)
(* Model of the OpenCV based multi-object tracking core of PeekingDuck:    *)
(* peekingduck/pipeline/nodes/dabble/utils/tracking_files/                 *)
(* opencv_tracking.py, class OpenCVTracker.                                *)
(*                                                                         *)
(* A box is a 4-tuple of integers.  Detections arrive in normalized        *)
(* coordinates, written here in hundredths of the frame side; format_boxes *)
(* scales them to pixels.  An IoU score is an exact fraction <<num, den>>. *)
(* A rounded score, and the threshold, are counted in tenths.              *)
(* The registry (tracking_dict) is an insertion ordered mapping, modelled  *)
(* as a sequence of [k, v] records, k the id and v the last box; the        *)
(* tracker handle stored next to the box is opaque and is represented by   *)
(* the outcome it reports.                                                 *)
(***************************************************************************)
EXTENDS Integers, Sequences, FiniteSets, TLC

VARIABLES
    first_frame_or_not,  \* self.first_frame_or_not
    next_object_id,      \* self.next_object_id
    tracking_dict,       \* self.tracking_dict, in insertion order
    inputs,              \* inputs["bboxes"] of the call to run that just ended
    obj_tags,            \* value returned by that call
    pc,                  \* "ready" between calls; "returned" or "raised" when a call to run just ended
    prev_first,          \* first_frame_or_not at entry of that call
    prev_next,           \* next_object_id at entry of that call
    prev_dict,           \* tracking_dict at entry of that call
    matching_dict,       \* local matching_dict of that call
    track_id,            \* local track_id of that call, before de-duplication
    assoc_dict,          \* tracking_dict of that call when its update pass began
    failed,              \* ids deleted from tracking_dict so far
    prev_failed,         \* failed at entry of that call
    lost_boxes,          \* SpecTraced: last boxes of the tracks deleted so far
    prev_lost_boxes,     \* SpecTraced: lost_boxes at entry of that call
    first_disjoint,      \* SpecTraced: the first call carried two detections that do not overlap
    updates,             \* (success, bbox) of tracker.update for each position of the copy of that call
    init_failed,         \* SpecInitFails: ids of line 126 for the trackers whose init failed in that call
    other,               \* SpecPair: attributes of a second OpenCVTracker instance
    who                  \* SpecPair: instance that call was made on, 0 between calls

vars == <<first_frame_or_not, next_object_id, tracking_dict, inputs, obj_tags,
          pc, prev_first, prev_next, prev_dict, matching_dict,
          track_id, assoc_dict, failed, prev_failed, lost_boxes, prev_lost_boxes,
          first_disjoint, updates, init_failed, other, who>>

-----------------------------------------------------------------------------
(* Bounds of the model *)

\* Largest number of detections in one frame.
MaxDets == 2

\* Largest id the registry may allocate; run is not taken beyond it.
MaxId == 3

\* Largest id either instance of a pair may allocate.
PairMaxId == 2

-----------------------------------------------------------------------------
(* Inputs *)

\* Shape of inputs["img"], <<height, width>> in pixels.
frame_shape == <<100, 200>>

\* Normalized detection boxes [x1, y1, x2, y2], in hundredths of the frame.
\* IoU(BoxA, BoxB) = 7/100, which rounds to 0.1; IoU(BoxB, BoxC) = 4/100,
\* which rounds to 0.0; IoU(BoxA, BoxD) = 50/57; BoxC is disjoint from BoxA
\* and BoxD, and BoxD only touches BoxB.
BoxA == <<0, 0, 57, 100>>
BoxB == <<50, 0, 100, 100>>
BoxC == <<98, 0, 100, 100>>
BoxD == <<0, 0, 50, 100>>

DetBoxes == {BoxA, BoxB, BoxC, BoxD}

SeqsUpTo(S, n) == UNION {[1..k -> S] : k \in 0..n}

DetectionLists == SeqsUpTo(DetBoxes, MaxDets)

\* The value None of the source.
None == -1

-----------------------------------------------------------------------------
(* Geometry utilities *)

\* format_boxes: x components scaled by the width, y components by the height.
format_box(b, original_h, original_w) ==
    << (b[1] * original_w) \div 100, (b[2] * original_h) \div 100,
       (b[3] * original_w) \div 100, (b[4] * original_h) \div 100 >>

format_boxes(bboxes, original_h, original_w) ==
    [i \in DOMAIN bboxes |-> format_box(bboxes[i], original_h, original_w)]

Max2(a, b) == IF a >= b THEN a ELSE b
Min2(a, b) == IF a <= b THEN a ELSE b

area(b) == Max2(b[3] - b[1], 0) * Max2(b[4] - b[2], 0)

intersection(a, b) ==
    Max2(Min2(a[3], b[3]) - Max2(a[1], b[1]), 0)
  * Max2(Min2(a[4], b[4]) - Max2(a[2], b[2]), 0)

\* IoU of two boxes as a fraction; 0 when they do not overlap or one is degenerate.
iou_pair(a, b) ==
    LET i == intersection(a, b)
        u == area(a) + area(b) - i
    IN  IF i = 0 \/ u <= 0 THEN <<0, 1>> ELSE <<i, u>>

\* iou(box, candidates): one score per candidate, empty for no candidates.
iou(box, candidates) == [i \in DOMAIN candidates |-> iou_pair(box, candidates[i])]

\* p < q for fractions with positive denominators.
FracLess(p, q) == p[1] * q[2] < q[1] * p[2]

\* max(ious) of a non-empty sequence.
max_iou(ious) ==
    ious[CHOOSE i \in DOMAIN ious : \A j \in DOMAIN ious : ~FracLess(ious[i], ious[j])]

\* argmax returning the position of the last maximum.
argmax_last(ious) ==
    (CHOOSE i \in DOMAIN ious :
        /\ \A j \in DOMAIN ious : ~FracLess(ious[i], ious[j])
        /\ \A j \in DOMAIN ious : j > i => FracLess(ious[j], ious[i])) - 1

\* ious.argmax(): 0-based position of the first maximum.
argmax(ious) ==
    (CHOOSE i \in DOMAIN ious :
        /\ \A j \in DOMAIN ious : ~FracLess(ious[i], ious[j])
        /\ \A j \in DOMAIN ious : j < i => FracLess(ious[j], ious[i])) - 1

\* round(x, 1) of a score in [0, 1], in tenths, halves going to the even tenth.
round1(p) ==
    LET q == (10 * p[1]) \div p[2]
        r == (10 * p[1]) % p[2]
    IN  IF 2 * r > p[2] THEN q + 1
        ELSE IF 2 * r < p[2] THEN q
        ELSE IF q % 2 = 0 THEN q ELSE q + 1

\* self.iou_thresh = 0.1, in tenths.
iou_thresh == 1

-----------------------------------------------------------------------------
(* Insertion ordered mappings: sequences of [k, v] records with distinct k *)

keys(d) == [i \in DOMAIN d |-> d[i].k]

values(d) == [i \in DOMAIN d |-> d[i].v]

has_key(d, key) == \E i \in DOMAIN d : d[i].k = key

\* d.update({key: val}): a present key keeps its position, a new one goes last.
dict_update(d, key, val) ==
    IF has_key(d, key)
    THEN [i \in DOMAIN d |-> IF d[i].k = key THEN [k |-> key, v |-> val] ELSE d[i]]
    ELSE Append(d, [k |-> key, v |-> val])

\* dict_delete that fills the place of the deleted entry with the last one.
dict_delete_swapping(d, key) ==
    IF ~has_key(d, key) THEN d
    ELSE LET p == CHOOSE i \in DOMAIN d : d[i].k = key
         IN  SubSeq([d EXCEPT ![p] = d[Len(d)]], 1, Len(d) - 1)

\* del d[key]
dict_delete(d, key) == SelectSeq(d, LAMBDA e : e.k # key)

Range(s) == {s[i] : i \in DOMAIN s}

-----------------------------------------------------------------------------
(* OpenCVTracker *)

\* new_core with the id counter starting one too high.
new_core_from_one ==
    [first_frame_or_not |-> TRUE, next_object_id |-> 1, tracking_dict |-> <<>>]

\* State of a core right after __init__.
new_core ==
    [first_frame_or_not |-> TRUE, next_object_id |-> 0, tracking_dict |-> <<>>]

\* initialize_tracker taking the id from the size of the registry.
initialize_tracker_by_size(core, bbox) ==
    [core EXCEPT !.next_object_id = Len(core.tracking_dict) + 1,
                 !.tracking_dict  = dict_update(core.tracking_dict,
                                                Len(core.tracking_dict) + 1, bbox)]

\* initialize_tracker putting the new track first in the registry.
initialize_tracker_front(core, bbox) ==
    [core EXCEPT !.next_object_id = core.next_object_id + 1,
                 !.tracking_dict  = <<[k |-> core.next_object_id + 1, v |-> bbox]>>
                                    \o core.tracking_dict]

\* _initialize_tracker: allocate the next id and register the box under it.
\* core needs the fields next_object_id and tracking_dict only.
initialize_tracker(core, bbox) ==
    [core EXCEPT !.next_object_id = core.next_object_id + 1,
                 !.tracking_dict  = dict_update(core.tracking_dict,
                                                core.next_object_id + 1, bbox)]

\* run, lines 61-62: one tracker per detection, in detection order.
RECURSIVE initialize_all(_, _, _)
initialize_all(core, bboxes, i) ==
    IF i > Len(bboxes) THEN core
    ELSE initialize_all(initialize_tracker(core, bboxes[i]), bboxes, i + 1)

\* str(x) of an id.
str(x) == ToString(x)

\* highest_iou_index comparing the raw maximum with the threshold.
highest_iou_index_unrounded(box, prev_frame_tracked_bbox) ==
    LET ious == iou(box, prev_frame_tracked_bbox)
        m == max_iou(ious)
    IN  IF 10 * m[1] >= iou_thresh * m[2] THEN argmax(ious) ELSE None

\* _if_new_bbox_add_track, lines 96-97: position of the best previous box, or None.
highest_iou_index(box, prev_frame_tracked_bbox) ==
    LET ious == iou(box, prev_frame_tracked_bbox)
    IN  IF round1(max_iou(ious)) >= iou_thresh THEN argmax(ious) ELSE None

\* build_matching_dict in which a box left unmatched joins the candidates of
\* the boxes after it (a box already decided keeps its decision).
RECURSIVE build_matching_dict_growing(_, _, _, _)
build_matching_dict_growing(m, bboxes, prev_frame_tracked_bbox, i) ==
    IF i > Len(bboxes) THEN m
    ELSE build_matching_dict_growing(
             IF has_key(m, bboxes[i]) THEN m
             ELSE dict_update(m, bboxes[i],
                              highest_iou_index(bboxes[i], prev_frame_tracked_bbox)),
             bboxes,
             IF /\ highest_iou_index(bboxes[i], prev_frame_tracked_bbox) = None
                /\ ~has_key(m, bboxes[i])
             THEN Append(prev_frame_tracked_bbox, bboxes[i])
             ELSE prev_frame_tracked_bbox,
             i + 1)

\* _if_new_bbox_add_track, lines 91-99: matching_dict keyed by the box itself.
RECURSIVE build_matching_dict(_, _, _, _)
build_matching_dict(m, bboxes, prev_frame_tracked_bbox, i) ==
    IF i > Len(bboxes) THEN m
    ELSE build_matching_dict(
             dict_update(m, bboxes[i],
                         highest_iou_index(bboxes[i], prev_frame_tracked_bbox)),
             bboxes, prev_frame_tracked_bbox, i + 1)

\* matched_id taking the last key, as line 111 does for a new track.
matched_id_last(tracking, v) == keys(tracking)[Len(tracking)]

\* _if_new_bbox_add_track, lines 104-107: id found at position v of the registry.
matched_id(tracking, v) == keys(tracking)[v + 1]

\* assign_ids that stores the box of a matched entry in the matched track.
RECURSIVE assign_ids_overwriting(_, _, _)
assign_ids_overwriting(acc, m, i) ==
    IF i > Len(m) THEN acc
    ELSE IF m[i].v # None
         THEN assign_ids_overwriting(
                  [acc EXCEPT !.track_id =
                       Append(acc.track_id, str(matched_id(acc.tracking_dict, m[i].v))),
                              !.tracking_dict =
                       dict_update(acc.tracking_dict,
                                   matched_id(acc.tracking_dict, m[i].v), m[i].k)],
                  m, i + 1)
         ELSE LET c == initialize_tracker(acc, m[i].k)
              IN  assign_ids_overwriting(
                      [c EXCEPT !.track_id =
                           Append(c.track_id,
                                  str(keys(c.tracking_dict)[Len(c.tracking_dict)]))],
                      m, i + 1)

\* _if_new_bbox_add_track, lines 102-112: one entry of track_id per entry of
\* matching_dict; an entry without a match gets a new tracker.
\* acc has the fields next_object_id, tracking_dict and track_id.
RECURSIVE assign_ids(_, _, _)
assign_ids(acc, m, i) ==
    IF i > Len(m) THEN acc
    ELSE IF m[i].v # None
         THEN assign_ids(
                  [acc EXCEPT !.track_id =
                       Append(acc.track_id, str(matched_id(acc.tracking_dict, m[i].v)))],
                  m, i + 1)
         ELSE LET c == initialize_tracker(acc, m[i].k)
              IN  assign_ids(
                      [c EXCEPT !.track_id =
                           Append(c.track_id,
                                  str(keys(c.tracking_dict)[Len(c.tracking_dict)]))],
                      m, i + 1)

\* _if_new_bbox_add_track, lines 114-115: a tag seen before becomes "".
RECURSIVE replace_duplicates(_, _, _)
replace_duplicates(tags, track, i) ==
    IF i > Len(track) THEN tags
    ELSE replace_duplicates(
             Append(tags, IF track[i] \in Range(tags) THEN "" ELSE track[i]),
             track, i + 1)

\* association_raises with max taken before the loop over the boxes.
association_raises_eagerly(core, bboxes) == Len(core.tracking_dict) = 0

\* max(ious) of line 97 raises when there is a box to match and no previous box.
association_raises(core, bboxes) == Len(bboxes) > 0 /\ Len(core.tracking_dict) = 0

\* associate that leaves first_frame_or_not set after the first frame.
associate_staying_first(core, bboxes_in) ==
    LET bboxes == format_boxes(bboxes_in, frame_shape[1], frame_shape[2])
    IN  IF core.first_frame_or_not
        THEN LET c == initialize_all(core, bboxes, 1)
                 t == keys(c.tracking_dict)
             IN  [first_frame_or_not |-> core.first_frame_or_not,
                  next_object_id     |-> c.next_object_id,
                  tracking_dict      |-> c.tracking_dict,
                  track_id           |-> t,
                  obj_tags           |-> [i \in DOMAIN t |-> str(t[i])],
                  matching_dict      |-> <<>>,
                  raised             |-> FALSE]
        ELSE IF association_raises(core, bboxes)
        THEN [first_frame_or_not |-> core.first_frame_or_not,
              next_object_id     |-> core.next_object_id,
              tracking_dict      |-> core.tracking_dict,
              track_id           |-> <<>>,
              obj_tags           |-> <<>>,
              matching_dict      |-> <<>>,
              raised             |-> TRUE]
        ELSE LET m == build_matching_dict(<<>>, bboxes, values(core.tracking_dict), 1)
                 a == assign_ids([next_object_id |-> core.next_object_id,
                                  tracking_dict  |-> core.tracking_dict,
                                  track_id       |-> <<>>], m, 1)
             IN  [first_frame_or_not |-> core.first_frame_or_not,
                  next_object_id     |-> a.next_object_id,
                  tracking_dict      |-> a.tracking_dict,
                  track_id           |-> a.track_id,
                  obj_tags           |-> replace_duplicates(<<>>, a.track_id, 1),
                  matching_dict      |-> m,
                  raised             |-> FALSE]

\* run, lines 50-69: everything before the update pass.  The result has the
\* fields of a core and obj_tags, track_id, matching_dict, raised.
associate(core, bboxes_in) ==
    LET bboxes == format_boxes(bboxes_in, frame_shape[1], frame_shape[2])
    IN  IF core.first_frame_or_not
        THEN LET c == initialize_all(core, bboxes, 1)
                 t == keys(c.tracking_dict)
             IN  [first_frame_or_not |-> FALSE,
                  next_object_id     |-> c.next_object_id,
                  tracking_dict      |-> c.tracking_dict,
                  track_id           |-> t,
                  obj_tags           |-> [i \in DOMAIN t |-> str(t[i])],
                  matching_dict      |-> <<>>,
                  raised             |-> FALSE]
        ELSE IF association_raises(core, bboxes)
        THEN [first_frame_or_not |-> core.first_frame_or_not,
              next_object_id     |-> core.next_object_id,
              tracking_dict      |-> core.tracking_dict,
              track_id           |-> <<>>,
              obj_tags           |-> <<>>,
              matching_dict      |-> <<>>,
              raised             |-> TRUE]
        ELSE LET m == build_matching_dict(<<>>, bboxes, values(core.tracking_dict), 1)
                 a == assign_ids([next_object_id |-> core.next_object_id,
                                  tracking_dict  |-> core.tracking_dict,
                                  track_id       |-> <<>>], m, 1)
             IN  [first_frame_or_not |-> core.first_frame_or_not,
                  next_object_id     |-> a.next_object_id,
                  tracking_dict      |-> a.tracking_dict,
                  track_id           |-> a.track_id,
                  obj_tags           |-> replace_duplicates(<<>>, a.track_id, 1),
                  matching_dict      |-> m,
                  raised             |-> FALSE]

\* States in which run is left when tracker.init raises at line 124: the
\* boxes before the one that raises have been handled, the counter has not
\* been incremented for it, and id is what line 126 would have used.
init_raises_at(core, bboxes_in) ==
    LET bboxes == format_boxes(bboxes_in, frame_shape[1], frame_shape[2])
    IN  IF core.first_frame_or_not
        THEN {LET c == initialize_all(core, SubSeq(bboxes, 1, j - 1), 1)
              IN  [next_object_id |-> c.next_object_id,
                   tracking_dict  |-> c.tracking_dict,
                   track_id       |-> <<>>,
                   matching_dict  |-> <<>>,
                   id             |-> c.next_object_id + 1] : j \in DOMAIN bboxes}
        ELSE IF association_raises(core, bboxes)
        THEN {}
        ELSE LET m == build_matching_dict(<<>>, bboxes, values(core.tracking_dict), 1)
             IN  {LET a == assign_ids([next_object_id |-> core.next_object_id,
                                       tracking_dict  |-> core.tracking_dict,
                                       track_id       |-> <<>>],
                                      SubSeq(m, 1, p - 1), 1)
                  IN  [next_object_id |-> a.next_object_id,
                       tracking_dict  |-> a.tracking_dict,
                       track_id       |-> a.track_id,
                       matching_dict  |-> m,
                       id             |-> a.next_object_id + 1] :
                      p \in {q \in DOMAIN m : m[q].v = None}}

\* Boxes a tracker may predict, in pixels.
PredBoxes == {format_box(BoxA, frame_shape[1], frame_shape[2]),
              format_box(BoxB, frame_shape[1], frame_shape[2])}

\* What tracker.update(frame) may report: (success, bbox).
Outcomes == [success : {TRUE}, bbox : PredBoxes]
            \cup {[success |-> FALSE, bbox |-> <<0, 0, 0, 0>>]}

\* update_pass that leaves a failed track in the registry.
RECURSIVE update_pass_keeping(_, _, _, _)
update_pass_keeping(d, copy, outcome, i) ==
    IF i > Len(copy) THEN d
    ELSE update_pass_keeping(
             IF outcome[i].success
             THEN dict_update(d, copy[i].k, outcome[i].bbox)
             ELSE d,
             copy, outcome, i + 1)

\* update_pass that steps over the track that follows a deleted one.
RECURSIVE update_pass_skipping(_, _, _, _)
update_pass_skipping(d, copy, outcome, i) ==
    IF i > Len(copy) THEN d
    ELSE IF outcome[i].success
         THEN update_pass_skipping(dict_update(d, copy[i].k, outcome[i].bbox),
                                   copy, outcome, i + 1)
         ELSE update_pass_skipping(dict_delete(d, copy[i].k), copy, outcome, i + 2)

\* run, lines 72-78: every track of the copy is asked once; outcome[i] is the
\* answer of the tracker at position i of the copy.
RECURSIVE update_pass(_, _, _, _)
update_pass(d, copy, outcome, i) ==
    IF i > Len(copy) THEN d
    ELSE update_pass(
             IF outcome[i].success
             THEN dict_update(d, copy[i].k, outcome[i].bbox)
             ELSE dict_delete(d, copy[i].k),
             copy, outcome, i + 1)

\* Entries of the copy whose tracker reported failure.
failures(copy, outcome) == {copy[i] : i \in {j \in DOMAIN copy : ~outcome[j].success}}

\* ids of a set of entries.
ids_of(entries) == {e.k : e \in entries}

\* Boxes of a set of entries.
boxes_of(entries) == {e.v : e \in entries}

-----------------------------------------------------------------------------
(* The state machine of one core *)

core_now ==
    [first_frame_or_not |-> first_frame_or_not,
     next_object_id     |-> next_object_id,
     tracking_dict      |-> tracking_dict]

Init ==
    /\ first_frame_or_not = new_core.first_frame_or_not
    /\ next_object_id = new_core.next_object_id
    /\ tracking_dict = new_core.tracking_dict
    /\ inputs = <<>>
    /\ obj_tags = <<>>
    /\ pc = "ready"
    /\ prev_first = new_core.first_frame_or_not
    /\ prev_next = new_core.next_object_id
    /\ prev_dict = new_core.tracking_dict
    /\ matching_dict = <<>>
    /\ track_id = <<>>
    /\ assoc_dict = <<>>
    /\ failed = {}
    /\ prev_failed = {}
    /\ lost_boxes = {}
    /\ prev_lost_boxes = {}
    /\ first_disjoint = FALSE
    /\ updates = <<>>
    /\ init_failed = {}
    /\ other = new_core
    /\ who = 0

\* What every call to run records about its entry state.  With traced set
\* the history of the first frame is recorded too.
Entry(bboxes_in, traced) ==
    /\ inputs' = bboxes_in
    /\ prev_first' = first_frame_or_not
    /\ prev_next' = next_object_id
    /\ prev_dict' = tracking_dict
    /\ prev_failed' = failed
    /\ prev_lost_boxes' = lost_boxes
    /\ first_disjoint' = IF traced /\ first_frame_or_not
                         THEN /\ Len(bboxes_in) = 2
                              /\ intersection(bboxes_in[1], bboxes_in[2]) = 0
                         ELSE first_disjoint

\* run(inputs) returning normally: association, then the update pass.  With
\* traced set the last boxes of the evicted tracks are recorded too.  Whether
\* tracker.init reported a failure is left to the caller: the code ignores it.
RunOf(traced) ==
    /\ pc = "ready"
    /\ \E bboxes_in \in DetectionLists :
        \E a \in {associate(core_now, bboxes_in)} :
            /\ ~a.raised
            /\ a.next_object_id <= MaxId
            /\ first_frame_or_not' = a.first_frame_or_not
            /\ next_object_id' = a.next_object_id
            /\ obj_tags' = a.obj_tags
            /\ track_id' = a.track_id
            /\ matching_dict' = a.matching_dict
            /\ assoc_dict' = a.tracking_dict
            /\ pc' = "returned"
            /\ Entry(bboxes_in, traced)
            /\ \E outcome \in [DOMAIN a.tracking_dict -> Outcomes] :
                   /\ tracking_dict' = update_pass(a.tracking_dict, a.tracking_dict, outcome, 1)
                   /\ failed' = failed \cup ids_of(failures(a.tracking_dict, outcome))
                   /\ lost_boxes' = IF traced
                                    THEN lost_boxes \cup boxes_of(failures(a.tracking_dict, outcome))
                                    ELSE lost_boxes
                   /\ updates' = outcome
                   /\ UNCHANGED <<other, who>>

\* run(inputs) leaving through the exception of line 97: nothing was mutated.
RunRaisesOf(traced) ==
    /\ pc = "ready"
    /\ \E bboxes_in \in DetectionLists :
        \E a \in {associate(core_now, bboxes_in)} :
            /\ a.raised
            /\ obj_tags' = a.obj_tags
            /\ track_id' = a.track_id
            /\ matching_dict' = a.matching_dict
            /\ assoc_dict' = a.tracking_dict
            /\ pc' = "raised"
            /\ Entry(bboxes_in, traced)
            /\ updates' = <<>>
            /\ init_failed' = {}
            /\ UNCHANGED <<first_frame_or_not, next_object_id, tracking_dict, failed,
                           lost_boxes, other, who>>

\* The call is over: its arguments, locals and result go out of scope and
\* the core waits for the next frame.  The attributes of the core stay.
Return ==
    /\ pc \in {"returned", "raised"}
    /\ pc' = "ready"
    /\ inputs' = <<>>
    /\ obj_tags' = <<>>
    /\ track_id' = <<>>
    /\ matching_dict' = <<>>
    /\ assoc_dict' = <<>>
    /\ prev_first' = first_frame_or_not
    /\ prev_next' = next_object_id
    /\ prev_dict' = tracking_dict
    /\ prev_failed' = failed
    /\ prev_lost_boxes' = lost_boxes
    /\ updates' = <<>>
    /\ init_failed' = {}
    /\ UNCHANGED <<first_frame_or_not, next_object_id, tracking_dict, failed,
                   lost_boxes, first_disjoint, other, who>>

\* run(inputs) returning normally with every tracker.init succeeding.
Run == RunOf(FALSE) /\ init_failed' = {}

RunRaises == RunRaisesOf(FALSE)

Next == Run \/ RunRaises \/ Return

Spec == Init /\ [][Next]_vars

\* The same machine with the history of the first frame and of the evicted
\* boxes recorded.
RunTraced == RunOf(TRUE) /\ init_failed' = {}

RunRaisesTraced == RunRaisesOf(TRUE)

NextTraced == RunTraced \/ RunRaisesTraced \/ Return

SpecTraced == Init /\ [][NextTraced]_vars

\* The same machine with a tracker.init that may fail.  The failure is
\* either reported by the value init returns, which line 124 ignores, or
\* raised as an exception, which nothing catches.

\* run(inputs) returning normally although tracker.init reported a failure
\* for some of the trackers made in the call.
RunInitFails ==
    /\ RunOf(FALSE)
    /\ init_failed' \in (SUBSET {k \in Range(keys(assoc_dict')) : k > next_object_id}) \ {{}}

\* run(inputs) leaving through an exception raised by tracker.init.
RunInitRaises ==
    /\ pc = "ready"
    /\ \E bboxes_in \in DetectionLists :
        \E c \in init_raises_at(core_now, bboxes_in) :
            /\ c.id <= MaxId
            /\ next_object_id' = c.next_object_id
            /\ tracking_dict' = c.tracking_dict
            /\ obj_tags' = <<>>
            /\ track_id' = c.track_id
            /\ matching_dict' = c.matching_dict
            /\ assoc_dict' = c.tracking_dict
            /\ pc' = "raised"
            /\ Entry(bboxes_in, FALSE)
            /\ updates' = <<>>
            /\ init_failed' = {c.id}
            /\ UNCHANGED <<first_frame_or_not, failed, lost_boxes, other, who>>

NextInitFails == Run \/ RunInitFails \/ RunInitRaises \/ RunRaises \/ Return

SpecInitFails == Init /\ [][NextInitFails]_vars

\* Two OpenCVTracker instances fed frames in any interleaving.  Instance 1
\* has the attributes of the machine above, instance 2 those of other.
\* Calls do not overlap in time.
Instances == {1, 2}

\* Frames fed to the pair: no detection or one.
PairDetectionLists == SeqsUpTo(DetBoxes, 1)

\* registry_ref with tracking_dict a class attribute: one dict for all instances.
registry_ref_of_class(i) == 1

\* The dict object self.tracking_dict of instance i refers to: __init__
\* evaluates dict() in every instance, so each has its own.
registry_ref(i) == i

\* The dict object with the given reference.
registry(ref) == IF ref = 1 THEN tracking_dict ELSE other.tracking_dict

\* Attributes of instance i as its methods see them.
instance(i) ==
    [first_frame_or_not |-> IF i = 1 THEN first_frame_or_not ELSE other.first_frame_or_not,
     next_object_id     |-> IF i = 1 THEN next_object_id ELSE other.next_object_id,
     tracking_dict      |-> registry(registry_ref(i))]

\* Instance i ends a call with flag first, counter next and registry d.
Store(i, first, next, d) ==
    /\ first_frame_or_not' = IF i = 1 THEN first ELSE first_frame_or_not
    /\ next_object_id' = IF i = 1 THEN next ELSE next_object_id
    /\ tracking_dict' = IF registry_ref(i) = 1 THEN d ELSE tracking_dict
    /\ other' = [first_frame_or_not |-> IF i = 2 THEN first ELSE other.first_frame_or_not,
                 next_object_id     |-> IF i = 2 THEN next ELSE other.next_object_id,
                 tracking_dict      |-> IF registry_ref(i) = 2 THEN d ELSE other.tracking_dict]

\* run(inputs) of instance i returning normally.
PairRun(i) ==
    /\ pc = "ready"
    /\ \E bboxes_in \in PairDetectionLists :
        \E a \in {associate(instance(i), bboxes_in)} :
            /\ ~a.raised
            /\ a.next_object_id <= PairMaxId
            /\ who' = i
            /\ inputs' = bboxes_in
            /\ obj_tags' = a.obj_tags
            /\ pc' = "returned"
            /\ \E outcome \in [DOMAIN a.tracking_dict -> Outcomes] :
                   /\ updates' = outcome
                   /\ Store(i, a.first_frame_or_not, a.next_object_id,
                            update_pass(a.tracking_dict, a.tracking_dict, outcome, 1))
            /\ UNCHANGED <<prev_first, prev_next, prev_dict, matching_dict, track_id,
                           assoc_dict, failed, prev_failed, lost_boxes, prev_lost_boxes,
                           first_disjoint, init_failed>>

\* run(inputs) of instance i leaving through the exception of line 97.
PairRunRaises(i) ==
    /\ pc = "ready"
    /\ \E bboxes_in \in PairDetectionLists :
        \E a \in {associate(instance(i), bboxes_in)} :
            /\ a.raised
            /\ who' = i
            /\ inputs' = bboxes_in
            /\ obj_tags' = a.obj_tags
            /\ pc' = "raised"
            /\ UNCHANGED <<first_frame_or_not, next_object_id, tracking_dict, other,
                           updates, prev_first, prev_next, prev_dict, matching_dict,
                           track_id, assoc_dict, failed, prev_failed, lost_boxes,
                           prev_lost_boxes, first_disjoint, init_failed>>

\* The call is over; both instances keep their attributes.
PairReturn ==
    /\ pc \in {"returned", "raised"}
    /\ pc' = "ready"
    /\ who' = 0
    /\ inputs' = <<>>
    /\ obj_tags' = <<>>
    /\ updates' = <<>>
    /\ UNCHANGED <<first_frame_or_not, next_object_id, tracking_dict, other,
                   prev_first, prev_next, prev_dict, matching_dict, track_id,
                   assoc_dict, failed, prev_failed, lost_boxes, prev_lost_boxes,
                   first_disjoint, init_failed>>

RunFirst == PairRun(1)

RunSecond == PairRun(2)

RunFirstRaises == PairRunRaises(1)

RunSecondRaises == PairRunRaises(2)

NextPair == RunFirst \/ RunSecond \/ RunFirstRaises \/ RunSecondRaises \/ PairReturn

SpecPair == Init /\ [][NextPair]_vars

-----------------------------------------------------------------------------
(* Vocabulary of the properties *)

\* Pixel box of a detection of the frame.
px(b) == format_box(b, frame_shape[1], frame_shape[2])

\* The call that just ended was made in the RUNNING state and returned.
RunningReturned == pc = "returned" /\ ~prev_first

\* Raw maximum IoU of a pixel box over the boxes tracked at entry.
RawMax(box) == max_iou(iou(box, values(prev_dict)))

\* The box reaches the threshold against the boxes tracked at entry.
Matches(box) == round1(RawMax(box)) >= iou_thresh

\* Id of the track the box is matched to.
MatchOf(box) == keys(prev_dict)[argmax(iou(box, values(prev_dict))) + 1]

\* Ids allocated by the call that just ended.
NewIds == (prev_next + 1)..next_object_id

\* Tags of a set of ids.
TagsOf(S) == {str(k) : k \in S}

\* The sequence 1, ..., n.
UpTo(n) == [i \in 1..n |-> i]

Distinct(s) == \A i, j \in DOMAIN s : i # j => s[i] # s[j]

\* C1: every call to run returns exactly one tag per detection of the frame,
\* and the i-th tag belongs to the i-th detection: it is empty, or the id of
\* the track that detection was matched to, or the id of the track created
\* for that detection's box.
C1_OneTagPerDetection ==
    pc = "returned" =>
        /\ Len(obj_tags) = Len(inputs)
        /\ \A i \in DOMAIN inputs :
               \/ obj_tags[i] = ""
               \/ /\ prev_first
                  /\ obj_tags[i] = str(prev_next + i)
               \/ /\ ~prev_first
                  /\ Matches(px(inputs[i]))
                  /\ obj_tags[i] = str(MatchOf(px(inputs[i])))
               \/ /\ ~prev_first
                  /\ ~Matches(px(inputs[i]))
                  /\ \E e \in Range(assoc_dict) :
                         e.k \in NewIds /\ e.v = px(inputs[i]) /\ obj_tags[i] = str(e.k)

\* C2: ids are never reused.  The counter never decreases; every id in the
\* registry or ever evicted lies in 1..counter; the tracks a call creates get
\* the ids counter+1, counter+2, ... in the order of creation, behind the
\* tracks already there; the update pass allocates nothing and adds nothing;
\* no two tracks of the registry share an id.
C2_IdsNeverReused ==
    /\ next_object_id >= prev_next
    /\ Distinct(keys(tracking_dict))
    /\ Range(keys(tracking_dict)) \cup failed \subseteq 1..next_object_id
    /\ pc = "returned" =>
           /\ Range(keys(prev_dict)) \cup prev_failed \subseteq 1..prev_next
           /\ keys(assoc_dict) =
                  keys(prev_dict) \o [i \in 1..(next_object_id - prev_next) |-> prev_next + i]
           /\ Range(keys(tracking_dict)) \subseteq Range(keys(assoc_dict))

\* A call allocated an id after some track had been evicted.
C2_Witness == pc = "returned" /\ prev_failed # {} /\ next_object_id > prev_next

C4_FirstKeepsIdLaterBlank ==
    pc = "returned" =>
        /\ Len(obj_tags) = Len(inputs)
        /\ \A i, j \in DOMAIN obj_tags : (i # j /\ obj_tags[i] # "") => obj_tags[i] # obj_tags[j]
        /\ ~prev_first =>
               \A i \in DOMAIN inputs :
                   Matches(px(inputs[i])) =>
                       obj_tags[i] =
                           IF \E j \in 1..(i - 1) :
                                  /\ Matches(px(inputs[j]))
                                  /\ MatchOf(px(inputs[j])) = MatchOf(px(inputs[i]))
                           THEN ""
                           ELSE str(MatchOf(px(inputs[i])))

\* C5: a track whose tracker reported failure is out of the registry when that
\* call returns, the call returns normally, and in every later call the track
\* is not among the entries the detections are compared with, is not in the
\* registry during the call, and its id is in no tag.
C5_FailedTrackGone ==
    /\ \A id \in failed : ~has_key(tracking_dict, id)
    /\ (failed # prev_failed => pc = "returned")
    /\ pc \in {"returned", "raised"} =>
           \A id \in prev_failed :
               /\ ~has_key(prev_dict, id)
               /\ ~has_key(assoc_dict, id)
               /\ str(id) \notin Range(obj_tags)
               /\ str(id) \notin Range(track_id)

\* A frame with detections is answered after some track had been evicted.
C5_Witness ==
    pc = "returned" /\ prev_failed # {} /\ Len(obj_tags) > 0 /\ Len(prev_dict) > 0

\* C6: in every call made after an eviction, a detection located at the last
\* box of an evicted track is returned with an id allocated by this call.
C6_LostBoxGetsNewId ==
    pc \in {"returned", "raised"} =>
        \A i \in DOMAIN inputs :
            px(inputs[i]) \in prev_lost_boxes =>
                /\ pc = "returned"
                /\ i \in DOMAIN obj_tags
                /\ obj_tags[i] \in TagsOf(NewIds)

\* The entry of matching_dict and track_id that decides the box.
Decided(box) == CHOOSE p \in DOMAIN matching_dict : matching_dict[p].k = box

\* The box was given to a track that existed at entry, and no track was made for it.
AssignedToExisting(box) ==
    /\ track_id[Decided(box)] \in TagsOf(Range(keys(prev_dict)))
    /\ ~\E e \in Range(assoc_dict) : e.k \in NewIds /\ e.v = box

\* A new track holding the box was made, and it is what the box resolved to.
GivenNewTrack(box) ==
    \E e \in Range(assoc_dict) :
        e.k \in NewIds /\ e.v = box /\ track_id[Decided(box)] = str(e.k)

\* What C7 says of one box, given its raw maximum and whether it was assigned.
MatchedAsRounded(box, raw, assigned) ==
    /\ assigned <=> round1(raw) >= iou_thresh
    /\ ~assigned => GivenNewTrack(box)
    /\ (100 * raw[1] = 7 * raw[2] => assigned)
    /\ (100 * raw[1] = 4 * raw[2] => ~assigned)

\* C7: in the RUNNING state a detection is assigned to an existing track
\* exactly when its maximum IoU over the tracked boxes, rounded to one
\* decimal, is at least 0.1; a raw maximum of 7/100 is assigned, one of
\* 4/100 is not and gets a new track.
C7_MatchIffRoundedIoU ==
    RunningReturned =>
        \A b \in Range(inputs) :
            MatchedAsRounded(px(b), RawMax(px(b)), AssignedToExisting(px(b)))

\* One frame holds a detection matched on a raw maximum of 7/100 and one left
\* unmatched on a raw maximum of 4/100.
C7_Witness ==
    /\ RunningReturned
    /\ \E i, j \in DOMAIN inputs :
           /\ 100 * RawMax(px(inputs[i]))[1] = 7 * RawMax(px(inputs[i]))[2]
           /\ AssignedToExisting(px(inputs[i]))
           /\ 100 * RawMax(px(inputs[j]))[1] = 4 * RawMax(px(inputs[j]))[2]
           /\ ~AssignedToExisting(px(inputs[j]))

\* raw IoU of two boxes is at least 0.1.
AtLeastTenth(a, b) == 10 * iou_pair(a, b)[1] >= iou_pair(a, b)[2]

\* The first frame carried two disjoint detections, both tracks are alive and
\* no id was allocated since: the situation at entry of frame 2.
C8_Given ==
    /\ RunningReturned
    /\ first_disjoint
    /\ prev_next = 2
    /\ keys(prev_dict) = <<1, 2>>

\* C8 as stated: frame 2 carries one detection, close to track 1 and not to
\* track 2, and the output is <<"1", "3">>.
C8_OneDetectionTwoTags ==
    ( /\ C8_Given
      /\ Len(inputs) = 1
      /\ AtLeastTenth(px(inputs[1]), prev_dict[1].v)
      /\ ~AtLeastTenth(px(inputs[1]), prev_dict[2].v) )
    => obj_tags = <<"1", "3">>

\* What C8 supposes of frame 2 once it carries its second detection.
C8_TwoDetections ==
    /\ C8_Given
    /\ Len(inputs) = 2
    /\ AtLeastTenth(px(inputs[1]), prev_dict[1].v)
    /\ ~AtLeastTenth(px(inputs[1]), prev_dict[2].v)
    /\ ~Matches(px(inputs[2]))

\* C8 amended: frame 2 carries two detections, the first with IoU >= 0.1
\* with track 1's last box and < 0.1 with track 2's, the second below the
\* rounded threshold against both; the output is <<"1", "3">> and the new
\* track has id 3.
C8_MatchedThenNew ==
    C8_TwoDetections =>
        /\ obj_tags = <<"1", "3">>
        /\ next_object_id = 3
        /\ keys(assoc_dict) = <<1, 2, 3>>
        /\ assoc_dict[3].v = px(inputs[2])

C8_Witness == C8_TwoDetections

\* C9 as stated: a call with no detections returns no tags and leaves the
\* registry with the tracks it had.
C9_EmptyFrameKeepsRegistry ==
    (pc \in {"returned", "raised"} /\ inputs = <<>>) =>
        /\ pc = "returned"
        /\ obj_tags = <<>>
        /\ keys(tracking_dict) = keys(prev_dict)

\* C9 amended: a call with no detections, in either state, returns normally
\* with no tags, creates no track and allocates no id; the registry loses
\* exactly the tracks whose tracker reports failure in the update pass of
\* that call and keeps the others in order.
C9_EmptyFrame ==
    /\ (pc = "raised" => inputs # <<>>)
    /\ (pc = "returned" /\ inputs = <<>>) =>
        /\ obj_tags = <<>>
        /\ next_object_id = prev_next
        /\ assoc_dict = prev_dict
        /\ keys(tracking_dict) = SelectSeq(keys(prev_dict), LAMBDA k : k \notin failed)

\* A call with no detections in which a tracker failed.
C9_Witness ==
    pc = "returned" /\ inputs = <<>> /\ Len(prev_dict) = 2 /\ failed # prev_failed

\* C11: the decisions of a RUNNING frame are those the registry at entry
\* dictates.  Every entry of matching_dict is None or a position of the
\* registry at entry; a detection that reaches the threshold against the
\* boxes held at entry resolves to the track at entry with the best such box,
\* any other detection to a track made for it, also when a track made earlier
\* in the frame would have been a better candidate; and when the update pass
\* begins the tracks held at entry are all there with the boxes they had.
C11_DecidedOnEntrySnapshot ==
    RunningReturned =>
        /\ \A p \in DOMAIN matching_dict :
               matching_dict[p].v \in {None} \cup (0..(Len(prev_dict) - 1))
        /\ \A b \in Range(inputs) :
               IF Matches(px(b))
               THEN track_id[Decided(px(b))] = str(MatchOf(px(b)))
               ELSE GivenNewTrack(px(b))
        /\ SubSeq(assoc_dict, 1, Len(prev_dict)) = prev_dict

\* A detection is matched to a track held at entry although the track made
\* for an earlier detection of the frame overlaps it more, and the matched
\* track is evicted or moved by the update pass of the same frame.
C11_Witness ==
    /\ RunningReturned
    /\ Len(inputs) = 2
    /\ ~Matches(px(inputs[1]))
    /\ Matches(px(inputs[2]))
    /\ FracLess(RawMax(px(inputs[2])), iou_pair(px(inputs[2]), px(inputs[1])))
    /\ obj_tags[2] = str(MatchOf(px(inputs[2])))
    /\ \E p \in DOMAIN prev_dict : prev_dict[p] \notin Range(tracking_dict)

\* Position in the registry at entry of the track the box resolved to.
ResolvedAt(box) ==
    CHOOSE p \in DOMAIN prev_dict : track_id[Decided(box)] = str(prev_dict[p].k)

\* p holds a box of maximum IoU with the box, and is the first position and
\* the lowest id to do so.
FirstBest(box, p) ==
    \A q \in DOMAIN prev_dict :
        /\ ~FracLess(iou_pair(box, prev_dict[p].v), iou_pair(box, prev_dict[q].v))
        /\ (q # p /\ iou_pair(box, prev_dict[q].v) = iou_pair(box, prev_dict[p].v))
               => (p < q /\ prev_dict[p].k < prev_dict[q].k)

\* C12: a matched detection resolves to a track of the registry at entry
\* whose box has the maximum IoU with it; among several tracks with that
\* maximum it is the first in registry order, which has the lowest id.
C12_BestTrackFirstOnTies ==
    RunningReturned =>
        \A b \in Range(inputs) :
            Matches(px(b)) =>
                /\ \E p \in DOMAIN prev_dict : track_id[Decided(px(b))] = str(prev_dict[p].k)
                /\ FirstBest(px(b), ResolvedAt(px(b)))

\* A detection is matched while two tracks hold boxes of the same, maximum
\* IoU with it, and another while the best box is not the first one.
C12_Witness ==
    /\ RunningReturned
    /\ \E b \in Range(inputs) :
           /\ Matches(px(b))
           /\ \E p, q \in DOMAIN prev_dict :
                  /\ p < q
                  /\ iou_pair(px(b), prev_dict[p].v) = RawMax(px(b))
                  /\ iou_pair(px(b), prev_dict[q].v) = RawMax(px(b))
    /\ \E b \in Range(inputs) :
           /\ Matches(px(b))
           /\ ResolvedAt(px(b)) > 1

\* C13: a call in the RUNNING state that finds the registry empty and carries
\* n >= 1 detections returns, and it makes n tracks with the next n ids,
\* which are its tags in the order of the detections.
C13_EmptyRegistryAllNew ==
    (/\ pc \in {"returned", "raised"}
     /\ ~prev_first
     /\ Len(prev_dict) = 0
     /\ Len(inputs) >= 1)
        => /\ pc = "returned"
           /\ next_object_id = prev_next + Len(inputs)
           /\ keys(assoc_dict) = [i \in DOMAIN inputs |-> prev_next + i]
           /\ obj_tags = [i \in DOMAIN inputs |-> str(prev_next + i)]

\* Positions of the detections of the frame that do not reach the threshold.
Unmatched == {i \in DOMAIN inputs : ~Matches(px(inputs[i]))}

\* C14: association in a RUNNING frame allocates as many ids, and makes as
\* many tracks, as the frame has detections below the threshold; when every
\* detection matches, the ids in the registry and the counter are as at entry.
C14_OneTrackPerUnmatched ==
    RunningReturned =>
        /\ next_object_id - prev_next = Cardinality(Unmatched)
        /\ Len(assoc_dict) - Len(prev_dict) = Cardinality(Unmatched)
        /\ Unmatched = {} =>
               /\ keys(assoc_dict) = keys(prev_dict)
               /\ next_object_id = prev_next

\* Id of the track the i-th detection of the frame resolved to.
IdGiven(i) ==
    CHOOSE k \in Range(keys(assoc_dict)) :
        track_id[Decided(px(inputs[i]))] = str(k)

\* C15: of two unmatched detections of a RUNNING frame the earlier one is
\* given the smaller id, and the ids given to the unmatched detections are
\* the consecutive ids that follow the counter at entry.
C15_NewIdsInInputOrder ==
    RunningReturned =>
        /\ \A i, j \in Unmatched : i < j => IdGiven(i) < IdGiven(j)
        /\ {IdGiven(i) : i \in Unmatched} = NewIds

\* Number of trackers among the first i of the copy that reported success.
SuccessesUpTo(i) == Cardinality({j \in 1..i : updates[j].success})

\* C16: in every call that returns, the first one included, each track that
\* is in the registry when the update pass begins, those made in this call
\* included, is asked once; a track whose tracker succeeds keeps its id and
\* its place among the survivors and holds the predicted box, a track whose
\* tracker fails is gone, and the registry holds nothing else.
C16_UpdatePassPerTrack ==
    pc = "returned" =>
        /\ DOMAIN updates = DOMAIN assoc_dict
        /\ Len(tracking_dict) = SuccessesUpTo(Len(assoc_dict))
        /\ \A i \in DOMAIN assoc_dict :
               IF updates[i].success
               THEN tracking_dict[SuccessesUpTo(i)] =
                        [k |-> assoc_dict[i].k, v |-> updates[i].bbox]
               ELSE assoc_dict[i].k \notin Range(keys(tracking_dict))

\* The tracker of a track fails and the tracker of a later track, made in
\* the same call, succeeds with a box other than the one it was made with.
C16_Witness ==
    /\ pc = "returned"
    /\ \E i, j \in DOMAIN assoc_dict :
           /\ i < j
           /\ ~updates[i].success
           /\ updates[j].success
           /\ assoc_dict[j].k \in NewIds
           /\ updates[j].bbox # assoc_dict[j].v

\* Boxes of the detections of the frame that were matched to the track.
MatchedTo(id) == {px(b) : b \in {d \in Range(inputs) : Matches(px(d)) /\ MatchOf(px(d)) = id}}

\* C17 as stated: after a RUNNING frame a surviving track that some
\* detection was matched to holds the box of a detection matched to it, and
\* a surviving track without a matched detection holds its tracker's prediction.
C17_MatchedBoxOverwrites ==
    RunningReturned =>
        \A i \in DOMAIN assoc_dict :
            updates[i].success =>
                IF MatchedTo(assoc_dict[i].k) # {}
                THEN tracking_dict[SuccessesUpTo(i)].v \in MatchedTo(assoc_dict[i].k)
                ELSE tracking_dict[SuccessesUpTo(i)].v = updates[i].bbox

\* C17: association leaves the box of every track held at entry as it was,
\* matched or not, and after the update pass every surviving track, matched
\* or not, holds the box its tracker predicted.
C17_PredictionOnly ==
    RunningReturned =>
        /\ \A p \in DOMAIN prev_dict : assoc_dict[p] = prev_dict[p]
        /\ \A i \in DOMAIN assoc_dict :
               updates[i].success =>
                   tracking_dict[SuccessesUpTo(i)].v = updates[i].bbox

\* A detection is matched to a track that survives the frame and ends it
\* with the predicted box, which is neither the detection's box nor the box
\* the track held at entry.
C17_Witness ==
    /\ RunningReturned
    /\ \E i \in DOMAIN prev_dict :
           /\ MatchedTo(prev_dict[i].k) # {}
           /\ updates[i].success
           /\ tracking_dict[SuccessesUpTo(i)].k = prev_dict[i].k
           /\ tracking_dict[SuccessesUpTo(i)].v \notin MatchedTo(prev_dict[i].k)
           /\ tracking_dict[SuccessesUpTo(i)].v # prev_dict[i].v

\* C18: a core is UNINITIALIZED (first_frame_or_not set) only before its
\* first call and RUNNING after every call.  The first call takes no
\* association decision and makes one track per detection, in order, with
\* the detection's box, overlapping or equal boxes included; a later call
\* that returns has decided every box of the frame and then run the update
\* pass on the registry association left; no call sets first_frame_or_not.
C18_TwoStatesOneTransition ==
    /\ first_frame_or_not =>
           /\ pc = "ready"
           /\ next_object_id = 0
           /\ tracking_dict = <<>>
    /\ pc # "ready" => ~first_frame_or_not
    /\ ~prev_first => ~first_frame_or_not
    /\ (pc = "returned" /\ prev_first) =>
           /\ matching_dict = <<>>
           /\ assoc_dict = [i \in DOMAIN inputs |-> [k |-> i, v |-> px(inputs[i])]]
           /\ tracking_dict = update_pass(assoc_dict, assoc_dict, updates, 1)
    /\ RunningReturned =>
           /\ {e.k : e \in Range(matching_dict)} = {px(b) : b \in Range(inputs)}
           /\ tracking_dict = update_pass(assoc_dict, assoc_dict, updates, 1)

\* A RUNNING call decides two boxes and its update pass changes the registry,
\* after a first call that carried no detection.
C18_Witness ==
    /\ RunningReturned
    /\ Len(matching_dict) = 2
    /\ tracking_dict # assoc_dict
    /\ prev_next > Len(prev_dict)

\* C19: a call in which tracker.init failed for a detection returns its
\* tags, and the registry association leaves holds no track under the id of
\* a tracker whose init failed.
C19_InitFailureSkipsTrack ==
    (pc # "ready" /\ init_failed # {}) =>
        /\ pc = "returned"
        /\ init_failed \cap Range(keys(assoc_dict)) = {}

\* Attributes instance i owns.
Own(i) == IF i = 1 THEN core_now ELSE other

\* What a call on an instance does to the pair.
IndependentCall ==
    (pc = "ready" /\ pc' # "ready") =>
        \E i \in Instances :
            /\ i = who'
            /\ Own(3 - i)' = Own(3 - i)
            /\ \E a \in {associate(Own(i), inputs')} :
                   /\ a.raised <=> pc' = "raised"
                   /\ IF a.raised
                      THEN Own(i)' = Own(i)
                      ELSE /\ obj_tags' = a.obj_tags
                           /\ Own(i)' =
                                  [first_frame_or_not |-> a.first_frame_or_not,
                                   next_object_id     |-> a.next_object_id,
                                   tracking_dict      |->
                                       update_pass(a.tracking_dict, a.tracking_dict,
                                                   updates', 1)]

\* C20: whatever the interleaving of the frames fed to two instances, a call
\* on one of them leaves the attributes of the other as they were, and its
\* tags and the attributes it leaves are those run produces from the
\* attributes this instance had after its own previous call, its frame and
\* its trackers' answers.
C20_InstancesIndependent == [][IndependentCall]_vars

\* A call on instance 2 returns a tag while both instances hold tracks, with
\* different registries, and instance 1 has allocated more ids.
C20_Witness ==
    /\ pc = "returned"
    /\ who = 2
    /\ obj_tags # <<>>
    /\ tracking_dict # <<>>
    /\ other.tracking_dict # <<>>
    /\ other.tracking_dict # tracking_dict
    /\ next_object_id > other.next_object_id

\* C21: every non-empty tag of a call that returns is the id of a track the
\* registry holds when association ends, no track being removed before that.
\* In a RUNNING call an entry of matching_dict with a position resolves to
\* the id of the track that stood at that position at entry; that track
\* still stands there when association ends, whatever was inserted
\* meanwhile, and its box at entry has the maximum IoU with the entry's box.
C21_TagsNameRegisteredTracks ==
    /\ pc = "returned" =>
           \A i \in DOMAIN obj_tags :
               obj_tags[i] # "" => obj_tags[i] \in TagsOf(Range(keys(assoc_dict)))
    /\ RunningReturned =>
           \A p \in DOMAIN matching_dict :
               matching_dict[p].v # None =>
                   /\ matching_dict[p].v + 1 \in DOMAIN prev_dict
                   /\ track_id[p] = str(prev_dict[matching_dict[p].v + 1].k)
                   /\ assoc_dict[matching_dict[p].v + 1] = prev_dict[matching_dict[p].v + 1]
                   /\ iou_pair(matching_dict[p].k, prev_dict[matching_dict[p].v + 1].v)
                          = RawMax(matching_dict[p].k)

\* With two tracks in the registry, the first box of the frame gets a new
\* track and the second box is then resolved to the second track at entry.
C21_Witness ==
    /\ RunningReturned
    /\ Len(prev_dict) = 2
    /\ Len(matching_dict) = 2
    /\ matching_dict[1].v = None
    /\ matching_dict[2].v = 1
    /\ Len(assoc_dict) = 3
    /\ obj_tags = <<str(next_object_id), str(prev_dict[2].k)>>

\* The keys of d ascend strictly in iteration order and lie in 1..counter.
Ascending(d, counter) ==
    /\ \A p, q \in DOMAIN d : p < q => d[p].k < d[q].k
    /\ \A p \in DOMAIN d : d[p].k \in 1..counter

\* C22: the registry is strictly ascending by id in iteration order, with
\* ids between 1 and the counter, between calls, when association has ended
\* or was aborted, and after the update pass.  Every track inserted by a
\* call went to the end under the id allocated for it, so the inserted keys
\* are the ids that follow the counter at entry, in order, and an unmatched
\* box is tagged with one of them; a track whose tracker succeeds stands
\* after the update pass where it stood among the survivors.
C22_RegistryAscending ==
    /\ Ascending(tracking_dict, next_object_id)
    /\ pc # "ready" =>
           /\ Ascending(assoc_dict, next_object_id)
           /\ Len(assoc_dict) >= Len(prev_dict)
           /\ \A p \in DOMAIN assoc_dict :
                  p > Len(prev_dict) => assoc_dict[p].k = prev_next + (p - Len(prev_dict))
    /\ RunningReturned =>
           \A p \in DOMAIN matching_dict :
               matching_dict[p].v = None => track_id[p] \in TagsOf(NewIds)
    /\ pc = "returned" =>
           \A i \in DOMAIN assoc_dict :
               updates[i].success => tracking_dict[SuccessesUpTo(i)].k = assoc_dict[i].k

\* A RUNNING call inserts a track under the third id; the tracker of the
\* first track fails and the two later tracks, the new one included, stay
\* in order.
C22_Witness ==
    /\ RunningReturned
    /\ keys(assoc_dict) = <<1, 2, 3>>
    /\ prev_next = 2
    /\ ~updates[1].success
    /\ keys(tracking_dict) = <<2, 3>>
    /\ tracking_dict[1].v # assoc_dict[2].v

====
